---- MODULE Spec2Model ----
(***************************************************************************)
(* A model of AequilibraE/mapmatcher: the Network adapter (cost discount    *)
(* and reset), the construction of a Trip (trace conditioning, candidate   *)
(* links, stop nodes), and the map-matching loop of Trip.map_match driven  *)
(* by run_trips / MapMatcher.map_match.                                    *)
(*                                                                         *)
(* The routing engine (PathResults.compute_path) is modelled as a shortest *)
(* path search over a small concrete graph under the cost vector the graph *)
(* currently holds.  The geometric test of match_quality (which pings      *)
(* intersect the buffer around path_shape) is an outcome of the geometry   *)
(* library: no ping when the path geometry is empty, every ping whose      *)
(* nearest link is wholly part of the geometry, and any set of the others. *)
(***************************************************************************)
EXTENDS Integers, Sequences, FiniteSets, TLC

(***************************************************************************)
(* Bounds of the model.                                                    *)
(***************************************************************************)
\* Longest raw GPS trace handed to a Trip.
MaxPings == 4
\* Most consecutive discount_graph calls explored on a Network.
MaxDiscounts == 3
\* parameters.map_matching.maximum_waypoints as configured in the model.
maximum_waypoints == 2
\* parameters.data_quality.minimum_pings as configured in the model.
minimum_pings == 2

(***************************************************************************)
(* Parameters (parameters.py).                                             *)
(***************************************************************************)
\* max_speed = 36.1 m/s, kept in tenths of m/s.
max_speed_tenths == 361
max_speed_time == 120
minimum_coverage == 500
maximum_jittery == 1
buffer_size == 20
\* heading_tolerance is 22.5; bearings are whole degrees, for which a
\* difference is at most 22.5 exactly when it is at most 22.
heading_tolerance == 22
\* cost_discount = 0.1 and minimum_match_quality = 0.99 as exact fractions.
cost_discount == <<1, 10>>
minimum_match_quality == <<99, 100>>

(***************************************************************************)
(* Small arithmetic helpers.                                               *)
(***************************************************************************)
RECURSIVE Pow10(_)
Pow10(k) == IF k = 0 THEN 1 ELSE 10 * Pow10(k - 1)

Abs(v) == IF v < 0 THEN -v ELSE v

RECURSIVE SeqSum(_)
SeqSum(s) == IF s = <<>> THEN 0 ELSE Head(s) + SeqSum(Tail(s))

Range(s) == {s[i] : i \in DOMAIN s}

SetMin(S) == CHOOSE v \in S : \A u \in S : v <= u
SetMax(S) == CHOOSE v \in S : \A u \in S : v >= u

\* Values of a sequence in order of first appearance (Series.unique()).
RECURSIVE Unique(_)
Unique(s) ==
    IF s = <<>> THEN <<>>
    ELSE LET init == Unique(SubSeq(s, 1, Len(s) - 1))
             last == s[Len(s)]
         IN  IF last \in Range(init) THEN init ELSE Append(init, last)

(***************************************************************************)
(* Floating-point qualities are kept as exact fractions <<num, den>>.      *)
(***************************************************************************)
QGe(p, q) == p[1] * q[2] >= q[1] * p[2]
QEq(p, q) == p[1] * q[2] = q[1] * p[2]
QGt(p, q) == p[1] * q[2] > q[1] * p[2]
QZero == <<0, 1>>
QOne == <<1, 1>>
\* The value -1 that marks the cached quality as not computed.
QUnset == <<-1, 1>>
\* min(1.0, covered / n); a zero n gives nan, and min(1.0, nan) is 1.0.
QRatio(covered, n) ==
    IF n = 0 THEN QOne
    ELSE IF covered >= n THEN QOne ELSE <<covered, n>>

(***************************************************************************)
(* The road network: links with their end nodes and bearing, and the rows  *)
(* of the routing graph (one row per traversable direction of a link).     *)
(***************************************************************************)
Nodes == 1 .. 4

LinkTable ==
    << [a_node |-> 1, b_node |-> 2, net_link_az |-> 90, length |-> 10],
       [a_node |-> 2, b_node |-> 3, net_link_az |-> 90, length |-> 12],
       [a_node |-> 3, b_node |-> 4, net_link_az |-> 90, length |-> 8],
       [a_node |-> 1, b_node |-> 3, net_link_az |-> 60, length |-> 15] >>

LinkIds == DOMAIN LinkTable

\* Links 1, 2 and 4 are two-way; link 3 can only be driven from node 3 to 4.
GraphRows ==
    << [link_id |-> 1, direction |-> 1,  from |-> 1, to |-> 2],
       [link_id |-> 1, direction |-> -1, from |-> 2, to |-> 1],
       [link_id |-> 2, direction |-> 1,  from |-> 2, to |-> 3],
       [link_id |-> 2, direction |-> -1, from |-> 3, to |-> 2],
       [link_id |-> 3, direction |-> 1,  from |-> 3, to |-> 4],
       [link_id |-> 4, direction |-> 1,  from |-> 1, to |-> 3],
       [link_id |-> 4, direction |-> -1, from |-> 3, to |-> 1] >>

RowIds == DOMAIN GraphRows

\* graph.cost when the Network is built: the distance of each row.  Lengths
\* are scaled so that MaxDiscounts discounts stay exact.
GraphCostAtLoad ==
    [r \in RowIds |-> LinkTable[GraphRows[r].link_id].length * Pow10(MaxDiscounts + 1)]

(***************************************************************************)
(* Network (network.py).  A network is a record                            *)
(*   graph_cost : the copy of graph.cost taken by the constructor          *)
(*   distance   : the column graph.graph.distance                          *)
(*   cost       : graph.cost, the vector the routing engine reads          *)
(***************************************************************************)
NewNetwork ==
    [graph_cost |-> GraphCostAtLoad, distance |-> GraphCostAtLoad, cost |-> GraphCostAtLoad]

Discounted(v) == (v * cost_discount[1]) \div cost_discount[2]

\* discount_graph(links): multiply the distance of the rows of the named
\* links, then rebind graph.cost to the distance column.
discount_graph(net, links) ==
    LET d == [r \in RowIds |->
                 IF GraphRows[r].link_id \in links
                 THEN Discounted(net.distance[r]) ELSE net.distance[r]]
    IN  [net EXCEPT !.distance = d, !.cost = d]

\* A reset_graph that leaves the graph as the previous trip left it.
reset_graph_skipped(net) == {net}

\* reset_graph(): write the stored baseline into the distance column.  The
\* method does not assign graph.cost: the vector the engine reads follows
\* the column only when it shares memory with it, which the array library
\* does not promise; both outcomes are possible.
reset_graph(net) ==
    { [net EXCEPT !.distance = net.graph_cost, !.cost = c] :
        c \in {net.cost, net.graph_cost} }

(***************************************************************************)
(* The routing engine: PathResults.compute_path(start, end).               *)
(***************************************************************************)
PathNodes(p) == <<GraphRows[p[1]].from>> \o [i \in 1 .. Len(p) |-> GraphRows[p[i]].to]

IsSimplePath(p) ==
    /\ \A i \in 1 .. Len(p) - 1 : GraphRows[p[i]].to = GraphRows[p[i + 1]].from
    /\ \A i, j \in 1 .. Len(p) + 1 : i # j => PathNodes(p)[i] # PathNodes(p)[j]

SimplePaths ==
    {p \in UNION {[1 .. n -> RowIds] : n \in 1 .. Cardinality(Nodes) - 1} : IsSimplePath(p)}

PathCost(c, p) == SeqSum([i \in 1 .. Len(p) |-> c[p[i]]])

\* res.path is None
NoPath == <<>>

\* An engine that answers with any path from start to end.
compute_path_any_path(c, start, end) ==
    LET cands == {p \in SimplePaths :
                     GraphRows[p[1]].from = start /\ GraphRows[p[Len(p)]].to = end}
    IN  IF cands = {} THEN {NoPath} ELSE cands

\* The set of answers of the engine: the cheapest paths under cost vector c,
\* or no path when end cannot be reached from start.
compute_path(c, start, end) ==
    LET cands == {p \in SimplePaths :
                     GraphRows[p[1]].from = start /\ GraphRows[p[Len(p)]].to = end}
    IN  IF cands = {} THEN {NoPath}
        ELSE {p \in cands : \A q \in cands : PathCost(c, p) <= PathCost(c, q)}

\* res.milepost: 0 followed by the cumulative cost along the path.
Milepost(c, p) == [i \in 1 .. Len(p) + 1 |-> PathCost(c, SubSeq(p, 1, i - 1))]

(***************************************************************************)
(* Trip.__pre_process (trip.py).  A raw ping is a record                   *)
(*   timestamp (seconds), x (position in metres along the corridor),       *)
(*   link_id and dist_near_link (the answer of sjoin_nearest for the       *)
(*   ping), tangent_bearing (bearing_for_gps).                             *)
(***************************************************************************)
InsertByTimestamp(sorted, r) ==
    LET k == Cardinality({i \in DOMAIN sorted : sorted[i].timestamp <= r.timestamp})
    IN  SubSeq(sorted, 1, k) \o <<r>> \o SubSeq(sorted, k + 1, Len(sorted))

\* trace.sort_values("timestamp")
RECURSIVE SortByTimestamp(_)
SortByTimestamp(s) ==
    IF s = <<>> THEN <<>>
    ELSE InsertByTimestamp(SortByTimestamp(SubSeq(s, 1, Len(s) - 1)), s[Len(s)])

\* trace.drop_duplicates(subset=["ping_posix_time"], keep="first")
RECURSIVE DropDuplicates(_)
DropDuplicates(s) ==
    IF s = <<>> THEN <<>>
    ELSE LET init == DropDuplicates(SubSeq(s, 1, Len(s) - 1))
             last == s[Len(s)]
         IN  IF \E i \in DOMAIN init : init[i].timestamp = last.timestamp
             THEN init ELSE Append(init, last)

\* Trip.coverage: the diagonal of the bounding box of the pings.
Coverage(pings) ==
    SetMax({pings[i].x : i \in DOMAIN pings}) - SetMin({pings[i].x : i \in DOMAIN pings})

\* np.max(jitter): the widest spread of the pings that share a timestamp.
MaxJitter(pings) ==
    SetMax({ Abs(pings[ij[1]].x - pings[ij[2]].x) :
               ij \in {ij \in (DOMAIN pings) \X (DOMAIN pings) :
                         pings[ij[1]].timestamp = pings[ij[2]].timestamp} })

\* trace_segment_dist, trace_segment_traveled_time, trace_segment_speed > max_speed
\* and ping_id of the conditioned pings.
WithSegments(pings) ==
    [i \in DOMAIN pings |->
        LET dist  == IF i = 1 THEN 0 ELSE Abs(pings[i].x - pings[i - 1].x)
            ttime == IF i = 1 THEN 0
                     ELSE (pings[i].timestamp - pings[i - 1].timestamp) % 86400
        IN  [ping_id |-> i,
             timestamp |-> pings[i].timestamp,
             x |-> pings[i].x,
             link_id |-> pings[i].link_id,
             dist_near_link |-> pings[i].dist_near_link,
             tangent_bearing |-> pings[i].tangent_bearing,
             trace_segment_dist |-> dist,
             trace_segment_traveled_time |-> ttime,
             too_fast |-> (i > 1 /\ 10 * dist > max_speed_tenths * ttime)]]

\* w: the seconds travelled above max_speed.
SpeedingTime(trace) ==
    SeqSum([i \in DOMAIN trace |->
              IF trace[i].too_fast THEN trace[i].trace_segment_traveled_time ELSE 0])

\* too_fast.max(): the largest running total of travel time within the
\* speeding pings and within the other pings.
MaxGroupCumSum(trace) ==
    SetMax({ SeqSum([j \in 1 .. i |->
                       IF trace[j].too_fast = trace[i].too_fast
                       THEN trace[j].trace_segment_traveled_time ELSE 0]) :
               i \in DOMAIN trace })

\* One row of the sjoin_nearest of a ping with the links table.
JoinNearest(ping) ==
    [ping_id |-> ping.ping_id,
     timestamp |-> ping.timestamp,
     x |-> ping.x,
     link_id |-> ping.link_id,
     a_node |-> LinkTable[ping.link_id].a_node,
     b_node |-> LinkTable[ping.link_id].b_node,
     net_link_az |-> LinkTable[ping.link_id].net_link_az,
     tangent_bearing |-> ping.tangent_bearing,
     dist_near_link |-> ping.dist_near_link]

IsOutside(row) == row.dist_near_link > buffer_size
IsInside(row) == row.dist_near_link <= buffer_size

\* The links within buffer_size of a ping.  The pings of the model lie within
\* buffer_size of one link at most, their nearest one.
NearLinks(row) == IF IsInside(row) THEN {row.link_id} ELSE {}

(***************************************************************************)
(* Trip.__network_links: stop nodes, end-point waypoints, candidate links. *)
(***************************************************************************)
\* The stop node by heading alone (lines 312-317).
HeadingStopNode(row) ==
    LET abs_diff == Abs(row.tangent_bearing - row.net_link_az)
    IN  IF abs_diff < 90 \/ Abs(360 - abs_diff) < 90 THEN row.a_node ELSE row.b_node

network_links(rows) ==
    LET n == Len(rows)
        base == [i \in 1 .. n |->
                   [ping_id |-> rows[i].ping_id,
                    timestamp |-> rows[i].timestamp,
                    x |-> rows[i].x,
                    link_id |-> rows[i].link_id,
                    a_node |-> rows[i].a_node,
                    b_node |-> rows[i].b_node,
                    net_link_az |-> rows[i].net_link_az,
                    tangent_bearing |-> rows[i].tangent_bearing,
                    dist_near_link |-> rows[i].dist_near_link,
                    is_waypoint |-> IF i = 1 \/ i = n THEN 1 ELSE 0,
                    stop_node |-> HeadingStopNode(rows[i]),
                    ping_is_covered |-> FALSE]]
        several == Cardinality({rows[i].link_id : i \in 1 .. n}) > 1
        first == IF several
                 THEN (IF base[1].stop_node = base[1].b_node
                       THEN base[1].a_node ELSE base[1].b_node)
                 ELSE (IF base[1].x < base[n].x THEN base[1].a_node ELSE base[1].b_node)
        last == IF several
                THEN base[n].stop_node
                ELSE (IF base[1].x < base[n].x THEN base[1].b_node ELSE base[1].a_node)
    IN  [i \in 1 .. n |->
            IF i = n /\ ~several THEN [base[i] EXCEPT !.stop_node = last]
            ELSE IF i = 1 THEN [base[i] EXCEPT !.stop_node = first]
            ELSE base[i]]

\* LineString([]): the empty path geometry.
EmptyLine == [links |-> <<>>, first |-> 0, last |-> 0]

\* The position given to the pings outside the buffer (lines 291-293).
Position(ping_id, inside) ==
    IF inside # <<>> /\ ping_id < SetMin({inside[i].ping_id : i \in DOMAIN inside})
    THEN "before start"
    ELSE IF inside # <<>> /\ ping_id > SetMax({inside[i].ping_id : i \in DOMAIN inside})
    THEN "after end"
    ELSE "middle"

\* The errors __pre_process appends before the spatial join (lines 225-271).
TraceErrors(sorted, trace) ==
    (IF Len(sorted) < minimum_pings THEN <<"too few pings">> ELSE <<>>)
    \o (IF Coverage(sorted) < minimum_coverage THEN <<"insufficient coverage">> ELSE <<>>)
    \o (IF Len(sorted) # Len(trace)
        THEN (IF MaxJitter(sorted) > maximum_jittery THEN <<"jittery">> ELSE <<>>)
             \o (IF Len(trace) < minimum_pings THEN <<"too few pings">> ELSE <<>>)
        ELSE <<>>)
    \o (IF SpeedingTime(trace) > max_speed_time /\ MaxGroupCumSum(trace) > max_speed_time
        THEN <<"max speed surpassed">> ELSE <<>>)

\* The exception Trip(gps_trace, parameters, network) raises, "" when it
\* returns.  bearing_for_gps indexes the last of the len - 1 bearings of the
\* trace; line 290 reads parameters.map_matching.keep_ping_classification,
\* whose value kpc is "unset" when the parameters object has no such attribute.
NewTripRaises(raw, kpc) ==
    IF Len(raw.pings) < 2 THEN "IndexError"
    ELSE IF kpc = "unset" THEN "AttributeError"
    ELSE ""

\* The Trip the constructor returns.
NewTrip(raw, kpc) ==
    LET sorted == SortByTimestamp(raw.pings)
        trace == WithSegments(DropDuplicates(sorted))
        joined == [i \in DOMAIN trace |-> JoinNearest(trace[i])]
        outside == SelectSeq(joined, IsOutside)
        inside == SelectSeq(joined, IsInside)
        derived == Len(inside) >= minimum_pings
        wp == IF derived THEN network_links(inside) ELSE inside
        err2 == IF ~derived THEN <<"too few pings within buffer">>
                ELSE IF Cardinality({wp[i].stop_node : i \in DOMAIN wp}) < 2
                THEN <<"single stop node">> ELSE <<>>
    IN  [id |-> raw.trace_id,
         trace |-> trace,
         waypoints |-> wp,
         derived |-> derived,
         unmatchable |-> IF kpc = "true"
                         THEN [i \in DOMAIN outside |->
                                 [ping_id |-> outside[i].ping_id,
                                  position |-> Position(outside[i].ping_id, inside)]]
                         ELSE <<>>,
         candidate_links |-> IF derived
                             THEN Unique([i \in DOMAIN wp |-> wp[i].link_id])
                             ELSE <<>>,
         err |-> TraceErrors(sorted, trace) \o err2,
         warnings |-> IF Len(sorted) # Len(trace)
                      THEN <<"pings with the same timestamp">> ELSE <<>>,
         mm_results |-> <<>>,
         geo_path |-> EmptyLine,
         match_quality |-> QUnset,
         map_matched |-> 0,
         middle_waypoints_required |-> 0]

\* A has_error that overlooks a single recorded error.
has_error_needs_two(trip) == Len(trip.err) > 1

\* Trip.has_error
has_error(trip) == Len(trip.err) > 0

(***************************************************************************)
(* Trip.path_shape, Trip.match_quality, Trip.__reset.                      *)
(* A path geometry is kept by what it is built from: the links (with their *)
(* directions) and the first and last covered ping it is trimmed to (0     *)
(* when no ping is covered and nothing is trimmed).                        *)
(***************************************************************************)
CoveredIds(wp) == {wp[i].ping_id : i \in {j \in DOMAIN wp : wp[j].ping_is_covered}}

\* Lines 158-161: what path_shape builds the geometry from.
ShapeInputs(trip) ==
    LET points == CoveredIds(trip.waypoints)
    IN  [links |-> [i \in DOMAIN trip.mm_results |->
                      <<trip.mm_results[i].links, trip.mm_results[i].direction>>],
         first |-> IF points = {} THEN 0 ELSE SetMin(points),
         last |-> IF points = {} THEN 0 ELSE SetMax(points)]

\* The values path_shape can cache and return.  A geometry of length zero is
\* built again at every read; trimming can only leave nothing when no
\* untrimmed link remains.
path_shape(trip) ==
    IF trip.geo_path # EmptyLine THEN {trip.geo_path}
    ELSE LET g == ShapeInputs(trip)
         IN  IF g.links = <<>> THEN {EmptyLine}
             ELSE IF g.first = 0 THEN {g}
             ELSE {g} \cup (IF Len(g.links) <= 2 THEN {EmptyLine} ELSE {})

\* The links whose whole geometry is part of g: every link of an untrimmed
\* geometry, the links between the first and the last one of a trimmed one.
WholeLinks(g) ==
    {g.links[k][1] : k \in {j \in DOMAIN g.links : g.first = 0 \/ (1 < j /\ j < Len(g.links))}}

\* The pings the intersection test of line 373 can find within the buffer
\* of geometry g.  A waypoint lies within buffer_size of its link_id, so it
\* is found when that whole link is part of g; any other ping may be found
\* or not.
CoveredBy(trip, g) ==
    IF g = EmptyLine THEN {{}}
    ELSE LET wp == trip.waypoints
             sure == {wp[i].ping_id : i \in {j \in DOMAIN wp : wp[j].link_id \in WholeLinks(g)}}
             others == {wp[i].ping_id : i \in DOMAIN wp} \ sure
         IN  {sure \cup c : c \in SUBSET others}

\* The column ping_is_covered after the intersection test found `covered`.
SetCovered(wp, covered) ==
    [i \in DOMAIN wp |-> [wp[i] EXCEPT !.ping_is_covered = (wp[i].ping_id \in covered)]]

\* Reading Trip.match_quality on a trip whose waypoints were derived: the
\* set of trips the read can leave (the value read is their match_quality).
match_quality(trip) ==
    IF trip.match_quality[1] >= 0 THEN {trip}
    ELSE { [trip EXCEPT !.geo_path = gc[1],
                        !.waypoints = SetCovered(trip.waypoints, gc[2]),
                        !.match_quality =
                            QRatio(Cardinality(gc[2]), Len(trip.waypoints))] :
             gc \in UNION { {<<g, c>> : c \in CoveredBy(trip, g)} :
                            g \in path_shape(trip) } }

\* Trip.match_quality_raw, read after match_quality.
match_quality_raw(trip) ==
    LET n == IF Len(trip.trace) > 1 THEN Len(trip.trace) ELSE 1
        c == Cardinality(CoveredIds(trip.waypoints))
    IN  IF c >= n THEN QOne ELSE <<c, n>>

\* Trip.__reset
reset(trip) == [trip EXCEPT !.match_quality = QUnset, !.geo_path = EmptyLine]

(***************************************************************************)
(* Trip.__add_waypoint.                                                    *)
(***************************************************************************)
\* The j-th smallest element of a set of numbers.
Nth(S, j) == CHOOSE v \in S : Cardinality({u \in S : u < v}) = j - 1

\* A line 346 that also lets through the pings whose trial was rejected.
IsFreeUncovered_or_rejected(row) == ~row.ping_is_covered /\ row.is_waypoint <= 0

\* Lines 345-346.  The column ping_is_covered holds the result of the last
\* intersection test: __add_waypoint runs after match_quality was read.
IsFreeUncovered(row) == ~row.ping_is_covered /\ row.is_waypoint = 0

\* The runs of consecutive ping_ids in df, each with its missed time.
Runs(df) ==
    LET starts == {k \in DOMAIN df : k = 1 \/ df[k].ping_id # 1 + df[k - 1].ping_id}
        ends == {k \in DOMAIN df : k = Len(df) \/ df[k].ping_id # df[k + 1].ping_id - 1}
    IN  [j \in 1 .. Cardinality(starts) |->
            [frm |-> df[Nth(starts, j)].ping_id,
             end |-> df[Nth(ends, j)].ping_id,
             missed_time |-> df[Nth(ends, j)].timestamp - df[Nth(starts, j)].timestamp]]

\* np.argsort(missed_time): an ascending order of the runs; the order of runs
\* with equal missed time is not fixed by the sort.
ArgSorts(runs) ==
    {o \in [DOMAIN runs -> DOMAIN runs] :
        /\ \A i, j \in DOMAIN runs : i # j => o[i] # o[j]
        /\ \A i, j \in DOMAIN runs :
              i < j => runs[o[i]].missed_time <= runs[o[j]].missed_time}

\* np.argmax(np.bincount(stop_node)): the most frequent stop node, the
\* smallest one among equally frequent ones.
MostFrequent(cands) ==
    LET count(v) == Cardinality({i \in DOMAIN cands : cands[i].stop_node = v})
        vals == {cands[i].stop_node : i \in DOMAIN cands}
    IN  CHOOSE v \in vals :
            \A u \in vals : count(u) < count(v) \/ (count(u) = count(v) /\ v <= u)

\* A loop that takes the last ping with the most frequent stop node.
RECURSIVE ScanRuns_last_ping(_, _, _, _, _, _)
ScanRuns_last_ping(wp, stop_nodes, runs, order, i, ping_id) ==
    IF i > Len(runs) THEN ping_id
    ELSE LET worst == order[Len(runs) - i + 1]
             InRun(row) == /\ row.ping_id >= runs[worst].frm
                           /\ row.ping_id <= runs[worst].end
                           /\ row.stop_node \notin stop_nodes
             candidates == SelectSeq(wp, InRun)
         IN  IF candidates = <<>>
             THEN ScanRuns_last_ping(wp, stop_nodes, runs, order, i + 1, ping_id)
             ELSE LET stop_node == MostFrequent(candidates)
                      HasNode(row) == row.stop_node = stop_node
                      with == SelectSeq(candidates, HasNode)
                      found == with[Len(with)].ping_id
                      IsFound(row) == row.ping_id = found
                  IN  IF SelectSeq(wp, IsFound)[1].is_waypoint = 0
                      THEN found
                      ELSE ScanRuns_last_ping(wp, stop_nodes, runs, order, i + 1, found)

\* The loop over the runs, worst first (lines 350-365): the ping_id it ends with.
RECURSIVE ScanRuns(_, _, _, _, _, _)
ScanRuns(wp, stop_nodes, runs, order, i, ping_id) ==
    IF i > Len(runs) THEN ping_id
    ELSE LET worst == order[Len(runs) - i + 1]
             InRun(row) == /\ row.ping_id >= runs[worst].frm
                           /\ row.ping_id <= runs[worst].end
                           /\ row.stop_node \notin stop_nodes
             candidates == SelectSeq(wp, InRun)
         IN  IF candidates = <<>>
             THEN ScanRuns(wp, stop_nodes, runs, order, i + 1, ping_id)
             ELSE LET stop_node == MostFrequent(candidates)
                      HasNode(row) == row.stop_node = stop_node
                      found == SelectSeq(candidates, HasNode)[1].ping_id
                      IsFound(row) == row.ping_id = found
                  IN  IF SelectSeq(wp, IsFound)[1].is_waypoint = 0
                      THEN found
                      ELSE ScanRuns(wp, stop_nodes, runs, order, i + 1, found)

\* The ping ids add_waypoint can pick (0: no ping).
PickedPings(wp) ==
    LET stop_nodes == {wp[i].stop_node : i \in {j \in DOMAIN wp : wp[j].is_waypoint = 1}}
        runs == Runs(SelectSeq(wp, IsFreeUncovered))
    IN  {ScanRuns(wp, stop_nodes, runs, o, 1, 0) : o \in ArgSorts(runs)}

\* A line 366 that flags every free ping with the stop node of the picked one.
MarkTrial_by_stop_node(wp, ping_id) ==
    LET picked == {wp[i].stop_node : i \in {j \in DOMAIN wp : wp[j].ping_id = ping_id}}
    IN  [i \in DOMAIN wp |->
            IF wp[i].stop_node \in picked /\ wp[i].is_waypoint = 0
            THEN [wp[i] EXCEPT !.is_waypoint = 2] ELSE wp[i]]

\* Line 366: flag the picked ping as a trial waypoint.
MarkTrial(wp, ping_id) ==
    [i \in DOMAIN wp |->
        IF wp[i].ping_id = ping_id THEN [wp[i] EXCEPT !.is_waypoint = 2] ELSE wp[i]]

\* The trips a call of __add_waypoint can leave.
add_waypoint(trip) ==
    {[trip EXCEPT !.waypoints = MarkTrial(trip.waypoints, p)] : p \in PickedPings(trip.waypoints)}

(***************************************************************************)
(* The state.  A worker is the process that builds and matches the trips   *)
(* of one chunk of traces on its own Network: the calling process of       *)
(* MapMatcher.map_match with one thread, a pool process running run_trips  *)
(* otherwise.                                                              *)
(***************************************************************************)
VARIABLES
    keep_ping_classification, \* parameters.map_matching.keep_ping_classification
    ignore_errors,            \* the ignore_errors argument of the run: "true" or
                              \* "false" once fixed, "unread" before
    chunk,                    \* chunk[w]: the raw traces of worker w, by trace_id
    network,                  \* network[w]: the Network of worker w
    trips,                    \* trips[w]: the Trips worker w has built
    proc,                     \* proc[w]: where worker w is, and the locals of __map_match
    read_error                \* the exception the last read of match_quality raised

vars == <<keep_ping_classification, ignore_errors, chunk, network, trips, proc, read_error>>

Workers == DOMAIN chunk

\* The locals of a worker that is not inside __map_match.
Idle(pc, cur, add_calls, path_calls, error) ==
    [pc |-> pc, cur |-> cur, waypoint_count |-> 0, pos |-> 0,
     curr_match_quality |-> QZero, wpnts |-> <<>>, leg |-> 0, acc |-> <<>>,
     add_calls |-> add_calls, path_calls |-> path_calls, error |-> error]

InitChunks(chunks) ==
    /\ chunk = chunks
    /\ keep_ping_classification \in {"unset", "true"}
    /\ ignore_errors = "unread"
    /\ network = [w \in DOMAIN chunks |-> NewNetwork]
    /\ trips = [w \in DOMAIN chunks |-> <<>>]
    /\ proc = [w \in DOMAIN chunks |-> Idle("build", 1, 0, 0, "")]
    /\ read_error = ""

(***************************************************************************)
(* The traces the model is run on.                                         *)
(***************************************************************************)
\* What the spatial join and the bearing computation find for a ping: pings
\* on links 1, 2 and 3 and a ping more than buffer_size away from any link.
\* The ping nearest to link 3 is heading across it.
PingKinds ==
    { [link_id |-> 1, dist_near_link |-> 5, tangent_bearing |-> 90],
      [link_id |-> 2, dist_near_link |-> 5, tangent_bearing |-> 270],
      [link_id |-> 3, dist_near_link |-> 5, tangent_bearing |-> 200],
      [link_id |-> 4, dist_near_link |-> 50, tangent_bearing |-> 60] }

\* Metres travelled between two pings, one minute apart.
Steps == {600}

RawTrace(id, kinds, step) ==
    [trace_id |-> id,
     pings |-> [i \in DOMAIN kinds |->
                  [timestamp |-> 60 * i, x |-> step * i,
                   link_id |-> kinds[i].link_id,
                   dist_near_link |-> kinds[i].dist_near_link,
                   tangent_bearing |-> kinds[i].tangent_bearing]]]

TraceInputs(id, n) ==
    {RawTrace(id, ks, st) : ks \in UNION {[1 .. k -> PingKinds] : k \in 1 .. n}, st \in Steps}

Init == \E tr \in TraceInputs(1, MaxPings) : InitChunks(<< <<tr>> >>)

(***************************************************************************)
(* The actions.                                                            *)
(***************************************************************************)
\* run_trips line 12 / MapMatcher._build_trips: build the next Trip.
Build(w) ==
    /\ proc[w].pc = "build"
    /\ LET k == Len(trips[w]) + 1
           raised == NewTripRaises(chunk[w][k], keep_ping_classification)
       IN  IF raised # ""
           THEN /\ proc' = [proc EXCEPT ![w] = Idle("raised", 1, 0, 0, raised)]
                /\ UNCHANGED trips
           ELSE /\ trips' = [trips EXCEPT
                               ![w] = Append(@, NewTrip(chunk[w][k], keep_ping_classification))]
                /\ proc' = [proc EXCEPT
                              ![w] = Idle(IF k = Len(chunk[w]) THEN "match" ELSE "build",
                                          1, 0, 0, "")]
    /\ UNCHANGED <<keep_ping_classification, ignore_errors, chunk, network, read_error>>

\* The worker after map_match returned from the trip it was on.
Returned(p, n) ==
    Idle(IF p.cur = n THEN "done" ELSE "match", p.cur + 1, p.add_calls, p.path_calls, p.error)

\* Line 114: the stop nodes of the active waypoints.
IsActive(row) == row.is_waypoint > 0
ActiveStops(wp) == LET a == SelectSeq(wp, IsActive) IN [i \in DOMAIN a |-> a[i].stop_node]

\* __map_match up to the first routing request (lines 101-114).
StartMatch(w, p, t, n) ==
    IF Len(t.waypoints) = 0
    THEN /\ proc' = [proc EXCEPT ![w] = Returned(p, n)]
         /\ UNCHANGED <<trips, network>>
    ELSE \E n1 \in reset_graph(network[w]) :
           /\ network' = [network EXCEPT
                            ![w] = discount_graph(n1, Range(t.candidate_links))]
           /\ IF ~t.derived
              THEN \* line 114 raises AttributeError, caught at line 95
                   /\ trips' = [trips EXCEPT ![w][p.cur].err = <<"Critical failures">>]
                   /\ proc' = [proc EXCEPT ![w] = Returned(p, n)]
              ELSE /\ proc' = [proc EXCEPT
                                 ![w] = [p EXCEPT !.pc = "route",
                                                  !.wpnts = ActiveStops(t.waypoints),
                                                  !.leg = 1]]
                   /\ UNCHANGED trips

\* Trip.map_match(ignore_errors) up to the first routing request.  The
\* argument is the same for every trip of the run; the run fixes it at the
\* first trip that has recorded errors, the first trip it matters for.
MapMatch(w) ==
    /\ proc[w].pc = "match"
    /\ LET p == [proc[w] EXCEPT !.add_calls = 0, !.path_calls = 0]
           t == trips[w][p.cur]
           n == Len(trips[w])
           args == IF t.err = <<>> \/ ignore_errors # "unread"
                   THEN {ignore_errors} ELSE {"true", "false"}
       IN  \E ign \in args :
             /\ ignore_errors' = ign
             /\ IF has_error(t) /\ ign = "false"
                THEN \* lines 89-91: return
                     /\ proc' = [proc EXCEPT ![w] = Returned(p, n)]
                     /\ UNCHANGED <<trips, network>>
                ELSE StartMatch(w, p, t, n)
    /\ UNCHANGED <<keep_ping_classification, chunk, read_error>>

\* A line 127 that does not add pos to the mileposts of the leg.
PathRows_without_pos(c, path, pos) ==
    [i \in DOMAIN path |->
        [links |-> GraphRows[path[i]].link_id,
         direction |-> GraphRows[path[i]].direction,
         milepost |-> Milepost(c, path)[i + 1]]]

\* Lines 118-128: the rows one leg of the routing pass adds to the results.
PathRows(c, path, pos) ==
    [i \in DOMAIN path |->
        [links |-> GraphRows[path[i]].link_id,
         direction |-> GraphRows[path[i]].direction,
         milepost |-> Milepost(c, path)[i + 1] + pos]]

\* A line 122 that ends the routing pass at the first leg without a path.
LegResult_no_path_ends_pass(p, c, path) ==
    IF path = NoPath
    THEN [p EXCEPT !.leg = Len(p.wpnts), !.path_calls = @ + 1]
    ELSE LET rows == PathRows(c, path, p.pos)
         IN  [p EXCEPT !.leg = @ + 1, !.path_calls = @ + 1,
                       !.acc = @ \o rows, !.pos = rows[Len(rows)].milepost]

\* Lines 121-128: the locals of the pass after compute_path answered `path`
\* for the leg.  Without a path the loop continues with the next leg.
LegResult(p, c, path) ==
    IF path = NoPath
    THEN [p EXCEPT !.leg = @ + 1, !.path_calls = @ + 1]
    ELSE LET rows == PathRows(c, path, p.pos)
         IN  [p EXCEPT !.leg = @ + 1, !.path_calls = @ + 1,
                       !.acc = @ \o rows, !.pos = rows[Len(rows)].milepost]

\* Lines 117-128: one leg of the routing pass.
ComputeLeg(w) ==
    /\ proc[w].pc = "route"
    /\ proc[w].leg < Len(proc[w].wpnts)
    /\ LET p == proc[w]
           start == p.wpnts[p.leg]
           end == p.wpnts[p.leg + 1]
       IN  IF start = end
           THEN proc' = [proc EXCEPT ![w].leg = @ + 1]
           ELSE \E path \in compute_path(network[w].cost, start, end) :
                  proc' = [proc EXCEPT ![w] = LegResult(p, network[w].cost, path)]
    /\ UNCHANGED <<keep_ping_classification, ignore_errors, chunk, network, trips, read_error>>

\* A line 136 that writes corr to every waypoint, not only to the one on trial.
Retag_every_waypoint(wp, corr) ==
    [i \in DOMAIN wp |->
        IF wp[i].is_waypoint > 0 THEN [wp[i] EXCEPT !.is_waypoint = corr] ELSE wp[i]]

\* Line 136: the trial waypoint becomes corr.
Retag(wp, corr) ==
    [i \in DOMAIN wp |->
        IF wp[i].is_waypoint = 2 THEN [wp[i] EXCEPT !.is_waypoint = corr] ELSE wp[i]]

\* Line 134
Corr(curr_match_quality, quality) == IF QEq(curr_match_quality, quality) THEN -1 ELSE 1

\* Line 113: is waypoint_count the last value of the loop?
LastIteration(waypoint_count) == waypoint_count = maximum_waypoints

\* Lines 129-141: the end of a routing pass.
Evaluate(w) ==
    /\ proc[w].pc = "route"
    /\ proc[w].leg = Len(proc[w].wpnts)
    /\ LET p == proc[w]
           t1 == [trips[w][p.cur] EXCEPT !.mm_results = p.acc]
       IN  \E t2 \in match_quality(t1) :
             IF QGe(t2.match_quality, minimum_match_quality)
             THEN /\ trips' = [trips EXCEPT ![w][p.cur] = reset(t2)]
                  /\ proc' = [proc EXCEPT ![w].pc = "finish"]
             ELSE LET t3 == [t2 EXCEPT !.waypoints =
                                Retag(@, Corr(p.curr_match_quality, t2.match_quality))]
                  IN  \E t4 \in add_waypoint(reset(t3)) :
                        /\ trips' = [trips EXCEPT
                                       ![w][p.cur] =
                                           [t4 EXCEPT !.middle_waypoints_required =
                                                          p.waypoint_count]]
                        /\ proc' = [proc EXCEPT
                                      ![w] = [p EXCEPT
                                                !.add_calls = @ + 1,
                                                !.curr_match_quality = t2.match_quality,
                                                !.pc = IF LastIteration(p.waypoint_count)
                                                       THEN "finish" ELSE "route",
                                                !.waypoint_count =
                                                    IF LastIteration(p.waypoint_count)
                                                    THEN @ ELSE @ + 1,
                                                !.wpnts = ActiveStops(t4.waypoints),
                                                !.leg = 1,
                                                !.acc = <<>>]]
    /\ UNCHANGED <<keep_ping_classification, ignore_errors, chunk, network, read_error>>

\* Line 142: the stop node of a waypoint still on trial becomes 1.
TrialToNodeOne(wp) ==
    [i \in DOMAIN wp |->
        IF wp[i].is_waypoint = 2 THEN [wp[i] EXCEPT !.stop_node = 1] ELSE wp[i]]

\* Lines 142-145: the loop has ended; __map_match and map_match return.
Finish(w) ==
    /\ proc[w].pc = "finish"
    /\ LET p == proc[w]
           t == trips[w][p.cur]
       IN  \E t2 \in match_quality([t EXCEPT !.waypoints = TrialToNodeOne(@),
                                             !.map_matched = 1]) :
             /\ trips' = [trips EXCEPT ![w][p.cur] = t2]
             /\ proc' = [proc EXCEPT ![w] = Returned(p, Len(trips[w]))]
    /\ UNCHANGED <<keep_ping_classification, ignore_errors, chunk, network, read_error>>

\* A caller reads trip.match_quality (or match_quality_raw, which reads it
\* first) of a Trip that is not being matched.
ReadQuality(w, i) ==
    /\ proc[w].pc \in {"match", "done"}
    /\ i \in DOMAIN trips[w]
    /\ LET t == trips[w][i]
       IN  IF ~t.derived
           THEN \* path_shape reads the column ping_is_covered, which is not there
                /\ read_error' = "AttributeError"
                /\ UNCHANGED trips
           ELSE \E t2 \in match_quality(t) :
                  /\ trips' = [trips EXCEPT ![w][i] = t2]
                  /\ read_error' = ""
    /\ UNCHANGED <<keep_ping_classification, ignore_errors, chunk, network, proc>>

Next ==
    \/ \E w \in Workers : Build(w)
    \/ \E w \in Workers : MapMatch(w)
    \/ \E w \in Workers : ComputeLeg(w)
    \/ \E w \in Workers : Evaluate(w)
    \/ \E w \in Workers : Finish(w)
    \/ \E w \in Workers : \E i \in DOMAIN trips[w] : ReadQuality(w, i)

Spec == Init /\ [][Next]_vars

(***************************************************************************)
(* Several traces on one Network, and several workers.  MapMatcher splits  *)
(* the traces into chunks; the trips of a chunk are built and then matched *)
(* one after another on the worker's Network.                              *)
(***************************************************************************)
\* Traces of two pings on links 1 and 2.
ChunkKinds == {k \in PingKinds : k.link_id \in {1, 2}}

ChunkTraces(id) == {RawTrace(id, ks, st) : ks \in [1 .. 2 -> ChunkKinds], st \in Steps}

\* One worker with two traces, or two workers with one trace each.
ChunkInputs ==
    { << <<t1, t2>> >> : t1 \in ChunkTraces(1), t2 \in ChunkTraces(2) }
        \cup { << <<t1>>, <<t2>> >> : t1 \in ChunkTraces(1), t2 \in ChunkTraces(2) }

InitChunkRun == \E chunks \in ChunkInputs : InitChunks(chunks)

SpecChunks == InitChunkRun /\ [][Next]_vars

(***************************************************************************)
(* The Network on its own: a caller discounts and resets the graph.        *)
(***************************************************************************)
InitNet ==
    /\ chunk = << <<>> >>
    /\ keep_ping_classification = "true"
    /\ ignore_errors = "unread"
    /\ network = << NewNetwork >>
    /\ trips = << <<>> >>
    /\ proc = << Idle("net", 1, 0, 0, "") >>
    /\ read_error = ""

\* Has a row of one of the links been discounted MaxDiscounts times?
DiscountsLeft(net, links) ==
    \A r \in RowIds :
        GraphRows[r].link_id \in links =>
            net.distance[r] * Pow10(MaxDiscounts) > net.graph_cost[r]

\* network.discount_graph(links)
NetDiscount(w, links) ==
    /\ proc[w].pc \in {"net", "discounted", "reset"}
    /\ DiscountsLeft(network[w], links)
    /\ network' = [network EXCEPT ![w] = discount_graph(@, links)]
    /\ proc' = [proc EXCEPT ![w].pc = "discounted"]
    /\ UNCHANGED <<keep_ping_classification, ignore_errors, chunk, trips, read_error>>

\* network.reset_graph()
NetReset(w) ==
    /\ proc[w].pc \in {"net", "discounted", "reset"}
    /\ \E n1 \in reset_graph(network[w]) : network' = [network EXCEPT ![w] = n1]
    /\ proc' = [proc EXCEPT ![w].pc = "reset"]
    /\ UNCHANGED <<keep_ping_classification, ignore_errors, chunk, trips, read_error>>

NextNet ==
    \/ \E w \in Workers : \E links \in SUBSET LinkIds : NetDiscount(w, links)
    \/ \E w \in Workers : NetReset(w)

SpecNet == InitNet /\ [][NextNet]_vars

(***************************************************************************)
(* MapMatcher.map_match(ignore_errors, parallel_threads): the traces are   *)
(* split into jobs of ceil(len(all_ids) / parallel_threads) trace ids; one *)
(* pool task runs run_trips on each job and the callback extends the trip  *)
(* list with what the task returns.  With one thread the calling process   *)
(* builds and matches every trip itself.                                   *)
(***************************************************************************)
\* The trace ids of a run and the largest parallel_threads.
NTraces == 3
MaxThreads == 2

CeilDiv(a, b) == (a + b - 1) \div b

\* Lines 150-151
jobs(all_ids, threads) ==
    [j \in 1 .. CeilDiv(Len(all_ids), threads) |->
        SubSeq(all_ids, (j - 1) * threads + 1,
               IF j * threads < Len(all_ids) THEN j * threads ELSE Len(all_ids))]

\* Line 154
all_jobs(all_ids, parallel_threads) ==
    jobs(all_ids, CeilDiv(Len(all_ids), parallel_threads))

\* groupby("chunk_id__") and, inside run_trips or _build_trips,
\* groupby(["trace_id"]): the traces of each job in the order of their ids.
JobChunks(traces, job_list) ==
    [j \in DOMAIN job_list |->
        [k \in DOMAIN job_list[j] |-> traces[Nth(Range(job_list[j]), k)]]]

\* A trace of one ping on link 1 and a trace of two pings on links 1 and 2.
PoolTraces(id) ==
    LET K(l) == CHOOSE k \in PingKinds : k.link_id = l
    IN  {RawTrace(id, ks, st) : ks \in {<<K(1)>>, <<K(1), K(2)>>}, st \in Steps}

\* trace_id.unique(): the ids in the order they first appear in the data.
IdOrders == {s \in [1 .. NTraces -> 1 .. NTraces] : Range(s) = 1 .. NTraces}

InitPool ==
    \E all_ids \in IdOrders : \E parallel_threads \in 1 .. MaxThreads :
    \E traces \in [1 .. NTraces -> UNION {PoolTraces(id) : id \in 1 .. NTraces}] :
        /\ \A id \in 1 .. NTraces : traces[id].trace_id = id
        /\ InitChunks(JobChunks(traces, all_jobs(all_ids, parallel_threads)))

SpecPool == InitPool /\ [][Next]_vars

\* Did the run go through the pool?  The run has more than one trace, so it
\* has more than one job exactly when parallel_threads is more than one.
Parallel == Cardinality(Workers) > 1

\* Has MapMatcher.map_match returned?  An exception in _build_trips leaves
\* map_match; an exception in a pool task ends the task, and pool.join()
\* returns when every task has ended.
Completed ==
    IF Parallel
    THEN \A w \in Workers : proc[w].pc \in {"done", "raised"}
    ELSE \A w \in Workers : proc[w].pc = "done"

RECURSIVE Extended(_)
\* Lines 162-163: the list the callback has extended with the result of
\* every task that returned, here in the order of the jobs.  A task that
\* raised has no result and apply_async was given no error_callback.
Extended(w) ==
    IF w = 0 THEN <<>>
    ELSE Extended(w - 1) \o (IF proc[w].pc = "done" THEN trips[w] ELSE <<>>)

\* MapMatcher.trips (line 118, line 182)
MapMatcherTrips == IF Parallel THEN Extended(Len(chunk)) ELSE trips[1]

(***************************************************************************)
(* utils.check_lines_aligned(trace, tolerance) on its own: a caller hands  *)
(* it a frame of link and ping bearings and reads the column it returns.   *)
(***************************************************************************)
\* Comparison 3 left out: a difference that wraps around north is missed.
aligned_without_wrap(row, tolerance) ==
    LET abs_diff == Abs(row.net_link_az - row.tangent_bearing)
    IN  IF \/ abs_diff <= tolerance
           \/ abs_diff >= 180 - tolerance /\ abs_diff <= 180 + tolerance
        THEN 1 ELSE 0

\* Lines 8-21: the value of the column `aligned` for one row.
aligned(row, tolerance) ==
    LET cmax == IF row.net_link_az > row.tangent_bearing
                THEN row.net_link_az ELSE row.tangent_bearing
        cmin == IF row.net_link_az > row.tangent_bearing
                THEN row.tangent_bearing ELSE row.net_link_az
        abs_diff == Abs(row.net_link_az - row.tangent_bearing)
        reverse_diff == (cmax - cmin + tolerance) % 360
    IN  IF \/ abs_diff <= tolerance
           \/ abs_diff >= 180 - tolerance /\ abs_diff <= 180 + tolerance
           \/ reverse_diff <= tolerance
        THEN 1 ELSE 0

check_lines_aligned(trace, tolerance) ==
    [i \in DOMAIN trace |-> aligned(trace[i], tolerance)]

\* The frames of the run: every whole link bearing, the ping bearing `diff`
\* degrees further round the compass.
BearingFrame(diff) ==
    [i \in 1 .. 360 |-> [net_link_az |-> i - 1, tangent_bearing |-> (i - 1 + diff) % 360]]

Tolerances == {5 * k : k \in 1 .. 9}

InitAligned ==
    /\ chunk = << <<>> >>
    /\ keep_ping_classification = "true"
    /\ ignore_errors = "unread"
    /\ network = << NewNetwork >>
    /\ trips = << <<>> >>
    /\ \E diff \in 0 .. 359 : \E tolerance \in Tolerances :
          proc = << [pc |-> "frame", trace |-> BearingFrame(diff),
                     tolerance |-> tolerance, aligned |-> <<>>] >>
    /\ read_error = ""

CheckAligned(w) ==
    /\ proc[w].pc = "frame"
    /\ proc' = [proc EXCEPT ![w].pc = "checked",
                            ![w].aligned = check_lines_aligned(proc[w].trace, proc[w].tolerance)]
    /\ UNCHANGED <<keep_ping_classification, ignore_errors, chunk, network, trips, read_error>>

NextAligned ==
    \/ \E w \in Workers : CheckAligned(w)

SpecAligned == InitAligned /\ [][NextAligned]_vars

(***************************************************************************)
(* Trip.__add_waypoint on its own: the waypoint table as a routing pass    *)
(* can leave it, and one call of __add_waypoint on it.                     *)
(***************************************************************************)
\* The rows of the table.
TablePings == 6

\* The tables: pings one minute apart, the first and the last one end-point
\* waypoints at nodes 1 and 4, every other ping free, fixed or rejected,
\* covered or not by the last path, with stop node 1, 2 or 3.
WaypointTables ==
    { [i \in 1 .. TablePings |->
          [ping_id |-> i, timestamp |-> 60 * i,
           is_waypoint |-> IF i \in {1, TablePings} THEN 1 ELSE mid[i][1],
           ping_is_covered |-> IF i \in {1, TablePings} THEN TRUE ELSE mid[i][2],
           stop_node |-> IF i = 1 THEN 1 ELSE IF i = TablePings THEN 4 ELSE mid[i][3]]] :
      mid \in [2 .. TablePings - 1 -> {0, 1, -1} \X BOOLEAN \X {1, 2, 3}] }

InitAddWaypoint ==
    /\ chunk = << <<>> >>
    /\ keep_ping_classification = "true"
    /\ ignore_errors = "unread"
    /\ network = << NewNetwork >>
    /\ \E wp \in WaypointTables : trips = << << [waypoints |-> wp] >> >>
    /\ proc = << Idle("table", 1, 0, 0, "") >>
    /\ read_error = ""

\* self.__add_waypoint()
AddWaypoint(w) ==
    /\ proc[w].pc = "table"
    /\ \E t \in add_waypoint(trips[w][1]) : trips' = [trips EXCEPT ![w][1] = t]
    /\ proc' = [proc EXCEPT ![w].pc = "added", ![w].add_calls = @ + 1]
    /\ UNCHANGED <<keep_ping_classification, ignore_errors, chunk, network, read_error>>

NextAddWaypoint ==
    \/ \E w \in Workers : AddWaypoint(w)

SpecAddWaypoint == InitAddWaypoint /\ [][NextAddWaypoint]_vars

(***************************************************************************)
(* Parameters objects (parameters.py).                                     *)
(***************************************************************************)
MaxInstances == 3

\* The parameter groups and, of each, the knobs followed here.  max_speed
\* is kept in tenths of m/s.
GroupDefaults ==
    [map_matching |-> [buffer_size |-> buffer_size, cost_discount |-> cost_discount],
     data_quality |-> [maximum_jittery |-> maximum_jittery, max_speed |-> max_speed_tenths]]

GroupNames == DOMAIN GroupDefaults

\* The values a caller gives a knob.
KnobValues(group, knob) ==
    CASE knob = "buffer_size" -> {buffer_size, 50}
      [] knob = "cost_discount" -> {cost_discount, <<1, 2>>}
      [] knob = "maximum_jittery" -> {maximum_jittery, 20000}
      [] knob = "max_speed" -> {max_speed_tenths, 410}

\* An instance whose groups are fields filled in by the constructor.
InstanceGroups_one_per_instance == GroupDefaults

\* The groups in the __dict__ of a new Parameters instance: the four names
\* of the class body carry no annotation, so they are attributes of the
\* class and the generated __init__ sets none of them on the instance.
InstanceGroups == <<>>

\* Parameters(), held by the objects in holders.
NewParameters(holders) == [pc |-> "parameters", own |-> InstanceGroups, held_by |-> holders]

\* parameters.<group>: the attribute of the instance if it has one, and the
\* attribute of the class otherwise.
Group(class, par, group) ==
    IF group \in DOMAIN par.own THEN par.own[group] ELSE class[group]

InitParameters ==
    /\ chunk = << <<>> >>
    /\ keep_ping_classification = "true"
    /\ ignore_errors = "unread"
    /\ network = << GroupDefaults >>   \* the attributes of the class Parameters
    /\ trips = << <<>> >>
    /\ proc = <<>>                     \* the Parameters instances
    /\ read_error = ""

\* MapMatcher.__init__: self.parameters = Parameters()
MapMatcherInit ==
    /\ Len(proc) < MaxInstances
    /\ proc' = Append(proc, NewParameters({"MapMatcher"}))
    /\ UNCHANGED <<keep_ping_classification, ignore_errors, chunk, network, trips, read_error>>

\* par = Parameters() in the caller's code
CallerParameters ==
    /\ Len(proc) < MaxInstances
    /\ proc' = Append(proc, NewParameters({}))
    /\ UNCHANGED <<keep_ping_classification, ignore_errors, chunk, network, trips, read_error>>

\* Network(graph, links, parameters) and Trip(gps_trace, parameters, network)
\* keep the instance they are given.
Hold(i, holder) ==
    /\ holder \notin proc[i].held_by
    /\ proc' = [proc EXCEPT ![i].held_by = @ \cup {holder}]
    /\ UNCHANGED <<keep_ping_classification, ignore_errors, chunk, network, trips, read_error>>

\* par.<group>.<knob> = value: the attribute is set on the group object
\* that par.<group> evaluates to.
SetKnob(i, group, knob, value) ==
    /\ IF group \in DOMAIN proc[i].own
       THEN /\ proc' = [proc EXCEPT ![i].own[group][knob] = value]
            /\ UNCHANGED network
       ELSE /\ network' = [network EXCEPT ![1][group][knob] = value]
            /\ UNCHANGED proc
    /\ UNCHANGED <<keep_ping_classification, ignore_errors, chunk, trips, read_error>>

NextParameters ==
    \/ MapMatcherInit
    \/ CallerParameters
    \/ \E i \in DOMAIN proc, holder \in {"Network", "Trip"} : Hold(i, holder)
    \/ \E i \in DOMAIN proc, group \in GroupNames :
          \E knob \in DOMAIN GroupDefaults[group] :
              \E value \in KnobValues(group, knob) : SetKnob(i, group, knob, value)

SpecParameters == InitParameters /\ [][NextParameters]_vars

(***************************************************************************)
(* Properties.                                                             *)
(***************************************************************************)
\* The trips of worker w whose map_match call has returned.
ReturnedTrips(w) ==
    {i \in DOMAIN trips[w] :
        \/ proc[w].pc = "done"
        \/ proc[w].pc \in {"match", "route", "finish"} /\ i < proc[w].cur}

\* The rows of trip i of worker w that are on trial.
OnTrial(wp) == {i \in DOMAIN wp : wp[i].is_waypoint = 2}

\* The step of worker w is the end of a routing pass that called __add_waypoint.
AddWaypointCalled(w) ==
    /\ proc[w].pc = "route"
    /\ proc'[w].add_calls = proc[w].add_calls + 1

\* C1: success is 1 only when the published match_quality has reached
\* minimum_match_quality; in particular a trip whose loop used up the
\* waypoint budget below the threshold reports success 0.
C1_ExhaustedBudgetReportsFailure ==
    \A w \in Workers : \A i \in ReturnedTrips(w) :
        LET t == trips[w][i]
        IN  (t.middle_waypoints_required = maximum_waypoints /\ t.match_quality[1] >= 0
                /\ ~QGe(t.match_quality, minimum_match_quality))
                => t.map_matched = 0

\* C2: while the legs of a trace are routed, the cost the engine reads is
\* the baseline cost times cost_discount on the rows of the candidate links
\* of that trace and the baseline cost on every other row, whatever traces
\* were matched before on the same Network and whatever other workers do.
C2_DiscountOfCurrentTrace ==
    \A w \in Workers :
        proc[w].pc = "route" =>
            LET links == Range(trips[w][proc[w].cur].candidate_links)
            IN  \A r \in RowIds :
                    IF GraphRows[r].link_id \in links
                    THEN network[w].cost[r] * cost_discount[2]
                             = GraphCostAtLoad[r] * cost_discount[1]
                    ELSE network[w].cost[r] = GraphCostAtLoad[r]

\* A worker routes its second trace, whose candidate links differ from those
\* of the first, which it has matched.
C2_Witness ==
    \E w \in Workers :
        /\ proc[w].pc = "route"
        /\ proc[w].cur = 2
        /\ trips[w][1].map_matched = 1
        /\ Range(trips[w][1].candidate_links) # Range(trips[w][2].candidate_links)

\* C3: after reset_graph the cost the engine reads equals the baseline
\* stored at construction, and that baseline is the cost at load.
C3_ResetRestoresCost ==
    \A w \in Workers :
        proc[w].pc = "reset" =>
            /\ network[w].cost = network[w].graph_cost
            /\ network[w].graph_cost = GraphCostAtLoad

\* C4: at the end of a pass that goes on, the waypoint on trial is kept as a
\* fixed waypoint if the match quality of the pass is strictly greater than
\* the quality before it, and is no waypoint any more otherwise.
C4_TrialKeptIffImproved ==
    [][\A w \in Workers :
          AddWaypointCalled(w) =>
              LET wp == trips[w][proc[w].cur].waypoints
                  wq == trips'[w][proc[w].cur].waypoints
              IN  \A i \in OnTrial(wp) :
                      IF QGt(proc'[w].curr_match_quality, proc[w].curr_match_quality)
                      THEN wq[i].is_waypoint = 1
                      ELSE wq[i].is_waypoint <= 0]_vars

\* C5: one map_match call makes at most maximum_waypoints calls of
\* __add_waypoint.
C5_AtMostMaximumWaypointsCalls ==
    \A w \in Workers : proc[w].add_calls <= maximum_waypoints

\* C6 as stated: every call of __add_waypoint leaves exactly one ping on
\* trial, a ping that was no waypoint before.
C6_MarksExactlyOne ==
    [][\A w \in Workers :
          AddWaypointCalled(w) =>
              LET wp == trips[w][proc[w].cur].waypoints
                  wq == trips'[w][proc[w].cur].waypoints
              IN  /\ Cardinality(OnTrial(wq)) = 1
                  /\ \A i \in OnTrial(wq) : wp[i].is_waypoint = 0]_vars

\* C6: a call of __add_waypoint leaves at most one ping on trial, and that
\* ping had is_waypoint 0 before; it leaves one exactly when some uncovered
\* ping with is_waypoint 0 has a stop node that is not the stop node of a
\* fixed waypoint.
C6_MarksAtMostOne ==
    [][\A w \in Workers :
          AddWaypointCalled(w) =>
              LET wp == trips[w][proc[w].cur].waypoints
                  wq == trips'[w][proc[w].cur].waypoints
                  fixed == {wq[j].stop_node : j \in {k \in DOMAIN wq : wq[k].is_waypoint = 1}}
                  free == {i \in DOMAIN wq :
                              /\ ~wq[i].ping_is_covered
                              /\ wq[i].is_waypoint \in {0, 2}
                              /\ wq[i].stop_node \notin fixed}
              IN  /\ Cardinality(OnTrial(wq)) <= 1
                  /\ \A i \in OnTrial(wq) : wp[i].is_waypoint = 0 /\ i \in free
                  /\ (OnTrial(wq) # {}) <=> (free # {})]_vars

\* __add_waypoint has been called and has put a ping on trial.
C6_Witness ==
    \E w \in Workers :
        /\ proc[w].pc = "route"
        /\ proc[w].add_calls >= 1
        /\ OnTrial(trips[w][proc[w].cur].waypoints) # {}

\* The cost, in vector c, of the graph row of a link in a direction.
RowCost(c, link, direction) ==
    c[CHOOSE r \in RowIds : GraphRows[r].link_id = link /\ GraphRows[r].direction = direction]

\* C7: the milepost of each entry of the published results is the cost
\* accumulated from the start of the emitted link sequence up to the entry.
C7_MilepostsFromStart ==
    \A w \in Workers : \A i \in ReturnedTrips(w) :
        LET mm == trips[w][i].mm_results
        IN  trips[w][i].map_matched = 1 =>
                \A k \in DOMAIN mm :
                    mm[k].milepost =
                        SeqSum([j \in 1 .. k |->
                                   RowCost(network[w].cost, mm[j].links, mm[j].direction)])

NonDecreasing(mm) ==
    /\ \A k \in DOMAIN mm : mm[k].milepost >= 0
    /\ \A k \in 1 .. Len(mm) - 1 : mm[k].milepost <= mm[k + 1].milepost

\* C8: the mileposts of the results are non-negative and never decrease
\* along the sequence, within a pass and after every pass.
C8_MilepostsNonDecreasing ==
    \A w \in Workers :
        /\ NonDecreasing(proc[w].acc)
        /\ \A i \in DOMAIN trips[w] : NonDecreasing(trips[w][i].mm_results)

\* A pass after the first has routed two legs that both found a path.
C8_Witness ==
    \E w \in Workers :
        /\ proc[w].pc = "route"
        /\ proc[w].waypoint_count >= 1
        /\ proc[w].leg = 3
        /\ proc[w].path_calls >= 3
        /\ Len(proc[w].acc) >= 2

\* C9: reading match_quality and match_quality_raw gives a value in every
\* state of a Trip, also when no ping of the trace can be matched:
\* match_quality is min(1, covered / valid pings), match_quality_raw is
\* covered / all pings, both between 0 and 1.
C9_QualityAlwaysDefined ==
    /\ read_error = ""
    /\ \A w \in Workers : \A i \in DOMAIN trips[w] :
          LET t == trips[w][i]
              covered == Cardinality(CoveredIds(t.waypoints))
          IN  (t.derived /\ t.match_quality[1] >= 0) =>
                  /\ QEq(t.match_quality, QRatio(covered, Len(t.waypoints)))
                  /\ QGe(t.match_quality, QZero) /\ QGe(QOne, t.match_quality)
                  /\ QGe(match_quality_raw(t), QZero) /\ QGe(QOne, match_quality_raw(t))

\* C10: map_match without ignore_errors on a trip with recorded errors
\* returns at once: the trip, its results and the Network are as before, no
\* path was requested and success is 0.
C10_SkipChangesNothing ==
    [][\A w \in Workers :
          (/\ proc[w].pc = "match"
           /\ proc'[w] # proc[w]
           /\ trips[w][proc[w].cur].err # <<>>
           /\ ignore_errors' = "false")
          => /\ trips'[w] = trips[w]
             /\ network'[w] = network[w]
             /\ proc'[w].path_calls = 0
             /\ trips'[w][proc[w].cur].map_matched = 0
             /\ trips'[w][proc[w].cur].mm_results = <<>>]_vars

\* A trip with recorded errors whose map_match call was made without
\* ignore_errors and has returned.
C10_Witness ==
    \E w \in Workers :
        /\ proc[w].pc = "done"
        /\ ignore_errors = "false"
        /\ \E i \in ReturnedTrips(w) : trips[w][i].err # <<>>

\* C11: after map_match with ignore_errors on a trip whose error list held
\* data-quality errors, the routing loop has run to its end (the trip is
\* marked map-matched) and every error recorded at construction is still in
\* the error list.
C11_ErrorsKeptAndRouted ==
    \A w \in Workers : \A i \in ReturnedTrips(w) :
        LET recorded == NewTrip(chunk[w][i], keep_ping_classification).err
        IN  (ignore_errors = "true" /\ recorded # <<>>) =>
                /\ trips[w][i].map_matched = 1
                /\ Range(recorded) \subseteq Range(trips[w][i].err)

\* Has the router no path for the leg from waypoint k of the pass of worker w?
LegWithoutPath(w, k) ==
    /\ proc[w].wpnts[k] # proc[w].wpnts[k + 1]
    /\ compute_path(network[w].cost, proc[w].wpnts[k], proc[w].wpnts[k + 1]) = {NoPath}

\* C12: a leg for which the router has no path adds nothing to the results
\* of the pass and leaves the milepost offset where the last leg with a path
\* put it; the pass goes on with the next leg and nothing is raised.
C12_NoPathLegSkipped ==
    [][\A w \in Workers :
          (/\ proc[w].pc = "route"
           /\ proc[w].leg < Len(proc[w].wpnts)
           /\ proc'[w] # proc[w]
           /\ LegWithoutPath(w, proc[w].leg))
          => /\ proc'[w].acc = proc[w].acc
             /\ proc'[w].pos = proc[w].pos
             /\ proc'[w].pc = "route"
             /\ proc'[w].wpnts = proc[w].wpnts
             /\ proc'[w].leg = proc[w].leg + 1
             /\ proc'[w].path_calls = proc[w].path_calls + 1
             /\ proc'[w].error = ""
             /\ trips' = trips]_vars

\* The end of a pass in which a leg had no path and a later leg had one.
C12_Witness ==
    \E w \in Workers :
        /\ proc[w].pc = "route"
        /\ proc[w].leg = Len(proc[w].wpnts)
        /\ proc[w].acc # <<>>
        /\ \E k \in 1 .. Len(proc[w].wpnts) - 2 :
              /\ LegWithoutPath(w, k)
              /\ \E j \in k + 1 .. Len(proc[w].wpnts) - 1 :
                    /\ proc[w].wpnts[j] # proc[w].wpnts[j + 1]
                    /\ ~LegWithoutPath(w, j)

\* C13: the jobs are pairwise disjoint and cover the trace ids, and once
\* MapMatcher.map_match has returned, with one worker or with several, its
\* trip list holds exactly one Trip for every trace id of the data.
C13_OneTripPerTrace ==
    LET ids == UNION {{chunk[w][k].trace_id : k \in DOMAIN chunk[w]} : w \in Workers}
    IN  /\ \A id \in ids :
              Cardinality({<<w, k>> \in Workers \X (1 .. NTraces) :
                              k \in DOMAIN chunk[w] /\ chunk[w][k].trace_id = id}) = 1
        /\ Completed =>
              /\ Len(MapMatcherTrips) = Cardinality(ids)
              /\ \A id \in ids :
                    Cardinality({i \in DOMAIN MapMatcherTrips :
                                    MapMatcherTrips[i].id = id}) = 1

\* The ping_ids of the pings of a trip within buffer_size of a link.
Matchable(t) ==
    {t.trace[i].ping_id : i \in {j \in DOMAIN t.trace : IsInside(JoinNearest(t.trace[j]))}}

\* C14: the first and the last matchable ping of a trip are waypoints with
\* flag 1 from construction on, whatever map_match does; and the waypoints a
\* routing pass goes through are in strictly increasing ping_id order, from
\* the first matchable ping to the last one.
C14_EndpointsStayWaypoints ==
    \A w \in Workers : \A i \in DOMAIN trips[w] :
        LET t == trips[w][i]
            wp == t.waypoints
            a == SelectSeq(wp, IsActive)
        IN  t.derived =>
              /\ \E k \in DOMAIN wp :
                    wp[k].ping_id = SetMin(Matchable(t)) /\ wp[k].is_waypoint = 1
              /\ \E k \in DOMAIN wp :
                    wp[k].ping_id = SetMax(Matchable(t)) /\ wp[k].is_waypoint = 1
              /\ (proc[w].pc = "route" /\ proc[w].cur = i) =>
                    /\ proc[w].wpnts = [k \in DOMAIN a |-> a[k].stop_node]
                    /\ \A k \in 1 .. Len(a) - 1 : a[k].ping_id < a[k + 1].ping_id
                    /\ a[1].ping_id = SetMin(Matchable(t))
                    /\ a[Len(a)].ping_id = SetMax(Matchable(t))

\* A routing pass through a middle waypoint, on a trace whose first ping is
\* not matchable.
C14_Witness ==
    \E w \in Workers :
        /\ proc[w].pc = "route"
        /\ Len(proc[w].wpnts) >= 3
        /\ proc[w].leg = Len(proc[w].wpnts)
        /\ SetMin(Matchable(trips[w][proc[w].cur])) > 1

\* The angle between the lines of two bearings, in 0 .. 90.
LineAngle(a, b) ==
    LET d == Abs(a - b) % 180 IN IF d <= 90 THEN d ELSE 180 - d

\* The row with 180 degrees added to the link bearing, to the ping bearing.
TurnLink(row) == [row EXCEPT !.net_link_az = (@ + 180) % 360]
TurnPing(row) == [row EXCEPT !.tangent_bearing = (@ + 180) % 360]
Swapped(row) == [net_link_az |-> row.tangent_bearing, tangent_bearing |-> row.net_link_az]

\* C18: for bearings in [0, 360) a row is marked aligned exactly when the
\* angle between the two lines is at most the tolerance; the mark is
\* symmetric in the two bearings and unchanged by turning either of them by
\* 180 degrees.  For every whole link bearing and tolerance 5, 10, ..., 45:
\* offsets 50, 130, 240 and 310 are never aligned, offsets 1 .. tolerance
\* and 181 .. 180 + tolerance always are.
C18_AlignedIffLineAngle ==
    \A w \in Workers :
        proc[w].pc = "checked" =>
            LET tr == proc[w].trace
                tol == proc[w].tolerance
                res == proc[w].aligned
                diff == tr[1].tangent_bearing - tr[1].net_link_az
            IN  /\ DOMAIN res = DOMAIN tr
                /\ \A i \in DOMAIN tr :
                      /\ res[i] = 1 <=>
                            LineAngle(tr[i].net_link_az, tr[i].tangent_bearing) <= tol
                      /\ res[i] = aligned(Swapped(tr[i]), tol)
                      /\ res[i] = aligned(TurnLink(tr[i]), tol)
                      /\ res[i] = aligned(TurnPing(tr[i]), tol)
                /\ diff \in {50, 130, 240, 310} => \A i \in DOMAIN res : res[i] = 0
                /\ diff \in (1 .. tol) \cup (181 .. 180 + tol) =>
                      \A i \in DOMAIN res : res[i] = 1

\* A checked frame with a row that is aligned across north: the bearings
\* are more than 180 + tolerance apart as numbers.
C18_Witness ==
    \E w \in Workers :
        /\ proc[w].pc = "checked"
        /\ \E i \in DOMAIN proc[w].aligned :
              /\ proc[w].aligned[i] = 1
              /\ Abs(proc[w].trace[i].net_link_az - proc[w].trace[i].tangent_bearing)
                    > 180 + proc[w].tolerance

\* The links whose rows a step of worker w has left discounted.
DiscountedLinks(net) ==
    {GraphRows[r].link_id : r \in {q \in RowIds : net.distance[q] < net.graph_cost[q]}}

\* C15: every link in the set map_match passes to discount_graph is the
\* link of a matchable ping that is within buffer_size of it and whose
\* bearing is aligned with the link within heading_tolerance.  (A ping is
\* taken to be near enough to any link that is not the nearest one.)
C15_CandidatesAligned ==
    [][\A w \in Workers :
          (proc[w].pc = "match" /\ proc'[w].pc = "route") =>
              LET t == trips[w][proc[w].cur]
              IN  \A l \in DiscountedLinks(network'[w]) :
                    \E i \in DOMAIN t.trace :
                        LET row == JoinNearest(t.trace[i])
                        IN  /\ row.link_id = l => IsInside(row)
                            /\ aligned([net_link_az |-> LinkTable[l].net_link_az,
                                        tangent_bearing |-> row.tangent_bearing],
                                       heading_tolerance) = 1]_vars

\* Has some ping of trip t link l within buffer_size?
PingNear(t, l) == \E i \in DOMAIN t.trace : l \in NearLinks(JoinNearest(t.trace[i]))

\* C16 as claimed: every link of the results of a trip whose map_match call
\* has returned has a ping of the trace within buffer_size of it.
C16_EveryLinkNearAPing ==
    \A w \in Workers : \A i \in ReturnedTrips(w) :
        \A j \in DOMAIN trips[w][i].mm_results :
            PingNear(trips[w][i], trips[w][i].mm_results[j].links)

\* Is p a path from start to end that no other such path undercuts at costs c?
Cheapest(c, p, start, end) ==
    /\ GraphRows[p[1]].from = start /\ GraphRows[p[Len(p)]].to = end
    /\ \A q \in SimplePaths :
          (GraphRows[q[1]].from = start /\ GraphRows[q[Len(q)]].to = end)
              => PathCost(c, p) <= PathCost(c, q)

\* C16, amended: every link a routing pass emits is a link, in its
\* direction, of a cheapest path under the discounted costs between the stop
\* nodes of two consecutive waypoints of the pass.
C16_LinksOfRoutedLegs ==
    \A w \in Workers :
        proc[w].pc = "route" =>
            \A j \in DOMAIN proc[w].acc :
                \E k \in 1 .. proc[w].leg - 1 :
                    /\ proc[w].wpnts[k] # proc[w].wpnts[k + 1]
                    /\ \E path \in SimplePaths :
                          /\ Cheapest(network[w].cost, path,
                                      proc[w].wpnts[k], proc[w].wpnts[k + 1])
                          /\ \E r \in Range(path) :
                                /\ GraphRows[r].link_id = proc[w].acc[j].links
                                /\ GraphRows[r].direction = proc[w].acc[j].direction

\* The end of a routing pass that emitted a link no ping is near.
C16_Witness ==
    \E w \in Workers :
        /\ proc[w].pc = "route"
        /\ proc[w].leg = Len(proc[w].wpnts)
        /\ \E j \in DOMAIN proc[w].acc :
              ~PingNear(trips[w][proc[w].cur], proc[w].acc[j].links)

\* C17: a second discount_graph call with the link set of the call before
\* it leaves the cost vector of the first call, and a second reset_graph
\* call leaves the distances of the first.
C17_Idempotent ==
    [][\A w \in Workers :
          /\ \A links \in SUBSET LinkIds :
                (/\ proc[w].pc = "discounted" /\ proc'[w].pc = "discounted"
                 /\ network[w].distance =
                        discount_graph([network[w] EXCEPT !.distance = network[w].graph_cost],
                                       links).distance
                 /\ network'[w] = discount_graph(network[w], links))
                => network'[w].cost = network[w].cost
          /\ (proc[w].pc = "reset" /\ proc'[w].pc = "reset")
                => network'[w].distance = network[w].distance]_vars

\* C19: the traces of the model have a trace_id column with one value, so
\* building a Trip from any of them raises nothing (here with
\* keep_ping_classification set on the parameters); and a built Trip with
\* fewer than minimum_pings pings, or fewer than minimum_pings pings within
\* the buffer, has each of these errors in its list and has_error true.
C19_OnlyStructuralErrorsRaise ==
    \A w \in Workers :
        /\ keep_ping_classification = "true" =>
              proc[w].pc # "raised" /\ proc[w].error = ""
        /\ \A i \in DOMAIN trips[w] :
              LET t == trips[w][i]
              IN  /\ Len(chunk[w][i].pings) < minimum_pings =>
                        "too few pings" \in Range(t.err) /\ has_error(t)
                  /\ Cardinality(Matchable(t)) < minimum_pings =>
                        "too few pings within buffer" \in Range(t.err) /\ has_error(t)

\* C20: a Trip built from a trace of two pings or more reports every ping
\* farther than buffer_size from the links in its unmatchable set and keeps
\* it out of the waypoints: the ping_ids of the waypoints and of the
\* unmatchable set partition those of the conditioned trace, and when no
\* ping is within the buffer the unmatchable set is as long as the trace.
C20_UnmatchablePartition ==
    \A w \in Workers : \A k \in DOMAIN chunk[w] :
        (/\ Len(chunk[w][k].pings) >= 2
         /\ \/ k <= Len(trips[w])
            \/ proc[w].pc = "raised" /\ k = Len(trips[w]) + 1)
        => /\ k \in DOMAIN trips[w]
           /\ LET t == trips[w][k]
                  all == {t.trace[i].ping_id : i \in DOMAIN t.trace}
                  wp == {t.waypoints[i].ping_id : i \in DOMAIN t.waypoints}
                  un == {t.unmatchable[i].ping_id : i \in DOMAIN t.unmatchable}
              IN  /\ wp = Matchable(t)
                  /\ wp \cap un = {}
                  /\ wp \cup un = all
                  /\ wp = {} => Len(t.unmatchable) = Len(t.trace)

\* C21: in every state of a Trip whose waypoints were derived, the stop node
\* of every row of the waypoint table is the a_node or the b_node of the
\* link of that row.
C21_StopNodeIsLinkEndpoint ==
    \A w \in Workers : \A i \in DOMAIN trips[w] :
        trips[w][i].derived =>
            \A k \in DOMAIN trips[w][i].waypoints :
                LET row == trips[w][i].waypoints[k]
                IN  row.stop_node \in {row.a_node, row.b_node}

\* The rows that were free and uncovered when __add_waypoint was called: the
\* call changes nothing but the flag of the ping it puts on trial.
WasFree(row) == ~row.ping_is_covered /\ row.is_waypoint \in {0, 2}

\* Can a ping be picked from the run: has it a row whose stop node is not
\* the stop node of an end point or fixed waypoint?
Eligible(wp, run, stop_nodes) ==
    \E k \in DOMAIN wp :
        /\ wp[k].ping_id >= run.frm /\ wp[k].ping_id <= run.end
        /\ wp[k].stop_node \notin stop_nodes

\* C22: the ping __add_waypoint puts on trial lies in a run of consecutive
\* ping_ids that were uncovered and not waypoints; no run of longer elapsed
\* time holds a ping with a stop node other than those of the end points and
\* fixed waypoints; its stop node is not one of those, is a most frequent one
\* among such pings of the run, and it is the earliest ping of the run with
\* that stop node.
C22_TrialPingChoice ==
    \A w \in Workers :
        proc[w].pc = "added" =>
            LET wp == trips[w][1].waypoints
                stop_nodes == {wp[k].stop_node : k \in {j \in DOMAIN wp : wp[j].is_waypoint = 1}}
                runs == Runs(SelectSeq(wp, WasFree))
                InRun(k, r) == wp[k].ping_id >= runs[r].frm /\ wp[k].ping_id <= runs[r].end
                Count(r, v) == Cardinality({k \in DOMAIN wp : InRun(k, r) /\ wp[k].stop_node = v})
            IN  \A t \in OnTrial(wp) :
                    /\ ~wp[t].ping_is_covered
                    /\ wp[t].stop_node \notin stop_nodes
                    /\ \E r \in DOMAIN runs :
                          /\ InRun(t, r)
                          /\ \A q \in DOMAIN runs :
                                runs[q].missed_time > runs[r].missed_time
                                    => ~Eligible(wp, runs[q], stop_nodes)
                          /\ \A k \in DOMAIN wp :
                                (InRun(k, r) /\ wp[k].stop_node \notin stop_nodes)
                                    => Count(r, wp[k].stop_node) <= Count(r, wp[t].stop_node)
                          /\ \A k \in DOMAIN wp :
                                (InRun(k, r) /\ wp[k].stop_node = wp[t].stop_node)
                                    => wp[t].ping_id <= wp[k].ping_id

\* A call that passed over the longest run, which had no eligible ping, and
\* picked a ping from a shorter one.
C22_Witness ==
    \E w \in Workers :
        /\ proc[w].pc = "added"
        /\ LET wp == trips[w][1].waypoints
               stop_nodes == {wp[k].stop_node : k \in {j \in DOMAIN wp : wp[j].is_waypoint = 1}}
               runs == Runs(SelectSeq(wp, WasFree))
           IN  \E t \in OnTrial(wp) : \E r, q \in DOMAIN runs :
                   /\ wp[t].ping_id >= runs[r].frm /\ wp[t].ping_id <= runs[r].end
                   /\ runs[q].missed_time > runs[r].missed_time
                   /\ ~Eligible(wp, runs[q], stop_nodes)

\* The angle between two compass bearings, in 0 .. 180.
Angle(a, b) ==
    LET d == Abs(a - b) % 360 IN IF d <= 180 THEN d ELSE 360 - d

\* C23: in a Trip whose matchable pings are on more than one link, and
\* before map_match has changed anything, the stop node of a ping is the
\* a_node of its link when its bearing is less than 90 degrees from the
\* link's and the b_node otherwise; except the last ping, whose stop node is
\* the downstream end of its link: b_node when it heads from a_node to
\* b_node, a_node when it heads the other way.
C23_StopNodeByHeading ==
    \A w \in Workers : \A i \in DOMAIN trips[w] :
        LET t == trips[w][i]
            wp == t.waypoints
            n == Len(wp)
            along(k) == Angle(wp[k].tangent_bearing, wp[k].net_link_az) < 90
        IN  (/\ t.derived
             /\ t.map_matched = 0
             /\ Cardinality({wp[k].link_id : k \in DOMAIN wp}) > 1)
            => /\ \A k \in 1 .. n - 1 :
                     wp[k].stop_node = IF along(k) THEN wp[k].a_node ELSE wp[k].b_node
               /\ wp[n].stop_node = IF along(n) THEN wp[n].b_node ELSE wp[n].a_node

\* C24: a step of map_match changes the flag of a waypoint only from none (0)
\* to trial (2) or from trial to fixed (1) or rejected (-1): end points and
\* fixed waypoints keep their flag, a rejected ping is never put on trial
\* again, and at most one ping of a trip is on trial.
C24_FlagTransitions ==
    [][\A w \in Workers : \A i \in DOMAIN trips[w] :
          trips[w][i].derived =>
              /\ Cardinality(OnTrial(trips'[w][i].waypoints)) <= 1
              /\ \A k \in DOMAIN trips[w][i].waypoints :
                    LET old == trips[w][i].waypoints[k].is_waypoint
                        new == trips'[w][i].waypoints[k].is_waypoint
                    IN  \/ new = old
                        \/ old = 0 /\ new = 2
                        \/ old = 2 /\ new \in {1, -1}]_vars

\* A trip with a ping whose trial was rejected, a ping whose trial was
\* fixed or is going on, during a later routing pass.
C24_Witness ==
    \E w \in Workers :
        /\ proc[w].pc = "route"
        /\ LET wp == trips[w][proc[w].cur].waypoints
           IN  /\ \E k \in DOMAIN wp : wp[k].is_waypoint = -1
               /\ \E k \in DOMAIN wp : wp[k].is_waypoint = 2

\* The quality the last routing pass computed and compared with
\* minimum_match_quality: the share of the waypoints it found covered.
PassQuality(t) == QRatio(Cardinality(CoveredIds(t.waypoints)), Len(t.waypoints))

\* C25: the match_quality a Trip has when map_match returns is the value
\* its terminating routing pass computed from the published link sequence
\* and compared with minimum_match_quality.
C25_QualityOfTerminatingPass ==
    [][\A w \in Workers :
          (proc[w].pc = "finish" /\ proc'[w].pc # "finish") =>
              LET old == trips[w][proc[w].cur]
                  new == trips'[w][proc[w].cur]
              IN  /\ new.mm_results = old.mm_results
                  /\ QEq(new.match_quality, PassQuality(old))]_vars

\* C26: in every state any two Parameters instances report the same value
\* for every knob of every parameter group, whoever holds them.
C26_InstancesShareGroups ==
    \A i, j \in DOMAIN proc :
        \A group \in GroupNames :
            Group(network[1], proc[i], group) = Group(network[1], proc[j], group)

\* A MapMatcher and a Network hold different instances, and a knob that was
\* given a value other than its default is reported by both.
C26_Witness ==
    \E i, j \in DOMAIN proc :
        /\ i # j
        /\ "MapMatcher" \in proc[i].held_by
        /\ "Network" \in proc[j].held_by
        /\ Group(network[1], proc[i], "map_matching").buffer_size # buffer_size
        /\ Group(network[1], proc[j], "map_matching").buffer_size # buffer_size

====
